---- MODULE Spec2Model ----
(***************************************************************************)
(* Model of the AISolxplorer transaction-instruction interpreter:          *)
(*   - TokenMetadataManager (tokensMetadataManager.ts): the process-wide   *)
(*     metadata cache, getTokenMetadata and clearCache;                    *)
(*   - instructionProcessor.ts (registry-based version): KNOWN_PROGRAMS,   *)
(*     getProgramInfo, parseInstructionDetail, the three transfer parsers  *)
(*     and the loop of classifyAndExtractInstructions;                     *)
(*   - ChainManager (chainManager.ts): the connection cache, getConnection *)
(*     with its failover over the RPC endpoints, clearConnectionCache.     *)
(*                                                                         *)
(* JavaScript values are represented as follows.  An object is a record    *)
(* whose DOMAIN is the set of properties that are present; `undefined`     *)
(* and `null` property values are represented by the absence of the        *)
(* property, and where a value of type string may be undefined the         *)
(* constant Undefined stands for it.  A PublicKey is represented by its    *)
(* base58 string.  A number amount / 10^d is the pair [m, e] = m * 10^-e.  *)
(***************************************************************************)
EXTENDS Integers, Sequences, FiniteSets, TLC

VARIABLES
    metadataCache,      \* TokenMetadataManager.metadataCache: cacheKey -> metadata
    now,                \* Date.now(), in milliseconds
    mintLookups,        \* address -> number of getMintInfo invocations so far
    lookupAt,           \* history: cacheKey -> time of the last resolution that
                        \* looked the mint up, since the last clearCache
    last,               \* the last TokenMetadataManager call and what it returned
    instructions,       \* tx.transaction.message.instructions
    innerInstructions,  \* tx.meta.innerInstructions
    idx,                \* loop index of classifyAndExtractInstructions
    pc,                 \* "loop" | "done" | "raised"
    result,             \* the ExtractedData being built
    calls,              \* the getTokenMetadata calls suspended at an await
    connectionCache,    \* ChainManager.connectionCache: cluster -> Connection
    connCalls,          \* the getConnection calls suspended at an await
    connCount,          \* number of getConnection calls made so far
    connLast            \* the last ChainManager call that returned or raised

vars == <<metadataCache, now, mintLookups, lookupAt, last,
          instructions, innerInstructions, idx, pc, result, calls,
          connectionCache, connCalls, connCount, connLast>>

metaVars == <<metadataCache, now, mintLookups, lookupAt, last>>
txVars == <<instructions, innerInstructions, idx, pc, result>>
chainVars == <<connectionCache, connCalls, connCount, connLast>>
asyncVars == <<calls, chainVars>>

-----------------------------------------------------------------------------
(* Bounds *)

MaxTicks == 4          \* clock ticks of half a TTL each
MaxLookups == 2        \* getMintInfo invocations in the resolver specification
MaxInstr == 2          \* top-level instructions of a transaction
MaxOrderInstr == 4     \* top-level instructions in the ordering specification
MaxSharedInstr == 1    \* top-level instructions in the shared-cache specification
MaxTransferInstr == 2  \* top-level instructions in the transfer specification
MaxCalls == 2          \* getTokenMetadata calls suspended at the same time
MaxConnCalls == 2      \* getConnection calls suspended at the same time
MaxConnections == 3    \* getConnection calls made in all

-----------------------------------------------------------------------------
(* JavaScript helpers *)

Undefined == "undefined"

\* obj[key] for an object whose keys are strings
Lookup(obj, key) == IF key \in DOMAIN obj THEN obj[key] ELSE Undefined

\* truthiness of a string-or-undefined value
Truthy(v) == v # Undefined /\ v # ""

\* a || b
OrElse(a, b) == IF Truthy(a) THEN a ELSE b

Has(obj, key) == key \in DOMAIN obj

-----------------------------------------------------------------------------
(* TokenMetadataManager *)

TTL == 3600000

TickMs == TTL \div 2

Mints == {"MintA", "MintB"}

TokenTypes == {"SPL", "NFT"}

\* What connection.getParsedAccountInfo yields for a mint: nothing usable
\* (RPC error, no account, unparsed data) or the parsed mint fields.
MintInfoOutcomes ==
    { [found |-> FALSE] } \cup
    { [found |-> TRUE, decimals |-> d, supply |-> s, isInitialized |-> TRUE] :
        <<d, s>> \in { <<0, "1">>, <<2, "1000">> } }

\* What the Metaplex metadata account lookup yields: nothing (no account,
\* RPC or deserialisation error) or the deserialised metadata.
MetaplexOutcomes ==
    { [found |-> FALSE],
      [found |-> TRUE,
       data |-> [name |-> "Token", symbol |-> "TKN", uri |-> "https://t/1.json",
                 sellerFeeBasisPoints |-> 500, creators |-> "creators"],
       collection |-> "collection", uses |-> "uses"] }

\* getMintInfo: null (here [found |-> FALSE]) on any failure.  An undefined
\* address makes `new PublicKey` throw inside the try block.
getMintInfo(mintAddress, outcome) ==
    IF mintAddress = Undefined \/ ~outcome.found
    THEN [found |-> FALSE]
    ELSE outcome

\* getMetaplexMetadata: null on absence or any failure.
getMetaplexMetadata(mintAddress, outcome) ==
    IF mintAddress = Undefined \/ ~outcome.found
    THEN [found |-> FALSE]
    ELSE outcome

\* Variant: the cache is keyed by the address alone.
CacheKey_AddressOnly(mintAddress, tokenType) == mintAddress

CacheKey(mintAddress, tokenType) == mintAddress \o "-" \o tokenType

CacheFresh(cache, t, cacheKey) ==
    cacheKey \in DOMAIN cache /\ t - cache[cacheKey].timestamp < TTL

\* The metadata object built on the success path (lines 75-114).
BuildMetadata(t, mintAddress, tokenType, mintInfo, metaplexData) ==
    LET base == [address |-> mintAddress, type |-> tokenType, timestamp |-> t]
        withMint == [decimals |-> mintInfo.decimals,
                     supply |-> mintInfo.supply,
                     isInitialized |-> mintInfo.isInitialized] @@ base
        withMetaplex ==
            IF (tokenType = "NFT" \/ tokenType = "SPL") /\ metaplexData.found
            THEN [name |-> metaplexData.data.name,
                  symbol |-> metaplexData.data.symbol,
                  uri |-> metaplexData.data.uri,
                  sellerFeeBasisPoints |-> metaplexData.data.sellerFeeBasisPoints,
                  creators |-> metaplexData.data.creators,
                  collection |-> metaplexData.collection,
                  uses |-> metaplexData.uses] @@ withMint
            ELSE withMint
    IN  IF tokenType = "NFT"
        THEN [isNFT |-> (mintInfo.decimals = 0 /\ mintInfo.supply = "1")] @@ withMetaplex
        ELSE withMetaplex

\* Variant: the degraded result also carries the default decimals.
ErrorMetadata_WithDecimals(mintAddress, tokenType) ==
    [address |-> mintAddress, type |-> tokenType, error |-> "Failed to fetch metadata",
     decimals |-> 9]

ErrorMetadata(mintAddress, tokenType) ==
    [address |-> mintAddress, type |-> tokenType, error |-> "Failed to fetch metadata"]

\* getTokenMetadata at time t against cache `cache`, where mo and po are what
\* the two account lookups would yield.  Returns the value returned to the
\* caller (ret), the cache afterwards, whether the cache answered (hit),
\* whether getMintInfo was invoked (looked) and, if so, whether it and the
\* Metaplex lookup found something (mintOk, metaplexOk).
getTokenMetadata(cache, t, mintAddress, tokenType, mo, po) ==
    LET cacheKey == CacheKey(mintAddress, tokenType)
        mintInfo == getMintInfo(mintAddress, mo)
        metaplexData == getMetaplexMetadata(mintAddress, po)
        metadata == BuildMetadata(t, mintAddress, tokenType, mintInfo, metaplexData)
    IN  IF CacheFresh(cache, t, cacheKey)
        THEN [ret |-> cache[cacheKey], cache |-> cache, hit |-> TRUE, looked |-> FALSE,
              mintOk |-> FALSE, metaplexOk |-> FALSE]
        ELSE IF ~mintInfo.found
        THEN [ret |-> ErrorMetadata(mintAddress, tokenType), cache |-> cache,
              hit |-> FALSE, looked |-> TRUE, mintOk |-> FALSE, metaplexOk |-> FALSE]
        ELSE [ret |-> metadata,
              cache |-> (cacheKey :> metadata) @@ cache,
              hit |-> FALSE, looked |-> TRUE,
              mintOk |-> TRUE, metaplexOk |-> metaplexData.found]

\* Number of getMintInfo invocations recorded for an address.
Count(counts, mintAddress) ==
    IF mintAddress \in DOMAIN counts THEN counts[mintAddress] ELSE 0

\* The counter of getMintInfo invocations after a call that returned r.
CountLookup(counts, mintAddress, r) ==
    IF r.looked
    THEN (mintAddress :> (Count(counts, mintAddress) + 1)) @@ counts
    ELSE counts

RECURSIVE SumCounts(_, _)
SumCounts(counts, keys) ==
    IF keys = {} THEN 0
    ELSE LET k == CHOOSE x \in keys : TRUE
         IN  counts[k] + SumCounts(counts, keys \ {k})

TotalLookups == SumCounts(mintLookups, DOMAIN mintLookups)

EmptyResult ==
    [programInteractions |-> << >>, actions |-> << >>, otherInstructions |-> << >>,
     types |-> << >>, transfers |-> << >>]

\* The resolver call a caller made: its arguments and what came back.
Call(mintAddress, tokenType, r) ==
    [called |-> TRUE, address |-> mintAddress, type |-> tokenType,
     cache |-> r.cache, ret |-> r.ret, hit |-> r.hit, looked |-> r.looked,
     mintOk |-> r.mintOk, metaplexOk |-> r.metaplexOk]

NoCall(cache) == [called |-> FALSE, cache |-> cache]

\* The manager state after a resolver call made at time t.  `last` also
\* notes whether the call directly follows a clearCache and which keys
\* that clearCache dropped.
RecordCall(m, call, t) ==
    IF ~call.called THEN m
    ELSE [cache |-> call.cache,
          counts |-> CountLookup(m.counts, call.address, call),
          lookupAt |-> IF call.looked
                       THEN (CacheKey(call.address, call.type) :> t) @@ m.lookupAt
                       ELSE m.lookupAt,
          last |-> [op |-> "getTokenMetadata", address |-> call.address,
                    type |-> call.type, key |-> CacheKey(call.address, call.type),
                    at |-> t, ret |-> call.ret, hit |-> call.hit,
                    looked |-> call.looked, mintOk |-> call.mintOk,
                    metaplexOk |-> call.metaplexOk,
                    afterClear |-> (m.last.op = "clearCache"),
                    dropped |-> IF m.last.op = "clearCache"
                                THEN m.last.dropped ELSE {}]]

Manager ==
    [cache |-> metadataCache, counts |-> mintLookups, lookupAt |-> lookupAt, last |-> last]

SetManager(m) ==
    /\ metadataCache' = m.cache
    /\ mintLookups' = m.counts
    /\ lookupAt' = m.lookupAt
    /\ last' = m.last

\* A request resolves the metadata of a mint (lines 66-128).
GetTokenMetadata(mintAddress, tokenType, mo, po) ==
    LET r == getTokenMetadata(metadataCache, now, mintAddress, tokenType, mo, po)
    IN  /\ r.looked => TotalLookups < MaxLookups
        /\ SetManager(RecordCall(Manager, Call(mintAddress, tokenType, r), now))
        /\ UNCHANGED <<now, txVars, asyncVars>>

\* Variant: clearCache drops only the entries whose TTL has run out.
ClearCache_OnlyExpired ==
    /\ metadataCache' = [k \in { k \in DOMAIN metadataCache :
                                    CacheFresh(metadataCache, now, k) }
                             |-> metadataCache[k]]
    /\ lookupAt' = << >>
    /\ last' = [op |-> "clearCache", dropped |-> DOMAIN metadataCache]
    /\ UNCHANGED <<now, mintLookups, txVars, asyncVars>>

\* clearCache (lines 130-132).
ClearCache ==
    /\ metadataCache' = << >>
    /\ lookupAt' = << >>
    /\ last' = [op |-> "clearCache", dropped |-> DOMAIN metadataCache]
    /\ UNCHANGED <<now, mintLookups, txVars, asyncVars>>

\* The clock advances.
Tick ==
    /\ now < MaxTicks * TickMs
    /\ now' = now + TickMs
    /\ UNCHANGED <<metadataCache, mintLookups, lookupAt, last, txVars, asyncVars>>

\* No getTokenMetadata call is suspended.
IdleCalls == [c \in 1..MaxCalls |-> [pc |-> "idle"]]

InitManager ==
    /\ metadataCache = << >>
    /\ now = 0
    /\ mintLookups = << >>
    /\ lookupAt = << >>
    /\ last = [op |-> "none"]
    /\ calls = IdleCalls
    /\ connectionCache = << >>
    /\ connCalls = [c \in 1..MaxConnCalls |-> [pc |-> "idle"]]
    /\ connCount = 0
    /\ connLast = [op |-> "none"]

InitMeta ==
    /\ InitManager
    /\ instructions = << >>
    /\ innerInstructions = << >>
    /\ idx = 0
    /\ pc = "idle"
    /\ result = EmptyResult

\* The (address, kind) pairs requests resolve: both kinds of one mint and
\* the fungible kind of another.
MetaRequests ==
    { q \in Mints \X TokenTypes : q[1] = "MintA" \/ q[2] = "SPL" }

NextMeta ==
    \/ \E q \in MetaRequests, mo \in MintInfoOutcomes, po \in MetaplexOutcomes :
          GetTokenMetadata(q[1], q[2], mo, po)
    \/ ClearCache
    \/ Tick

SpecMeta == InitMeta /\ [][NextMeta]_vars

-----------------------------------------------------------------------------
(* getTokenMetadata step by step: the calls of concurrent requests are     *)
(* interleaved at their awaits (lines 82 and 96); the code between two     *)
(* awaits runs without interruption.                                       *)

\* The lowest slot that holds no call.
FreeSlot(c) == calls[c].pc = "idle" /\ \A d \in 1..(c - 1) : calls[d].pc # "idle"

\* The call in slot c returns, leaving `cache` as the cache.  What it
\* returns goes to its caller and is no state of the manager.
Settle(c, cache) ==
    /\ metadataCache' = cache
    /\ calls' = [calls EXCEPT ![c] = [pc |-> "idle"]]

\* Variant: the catch block stores the degraded record before returning it.
Fail_Cached(c) ==
    LET degraded == ErrorMetadata(calls[c].mintAddress, calls[c].tokenType)
        cacheKey == CacheKey(calls[c].mintAddress, calls[c].tokenType)
    IN  Settle(c, (cacheKey :> degraded) @@ metadataCache)

\* lines 83-85 and 120-126: the catch block returns the degraded record
Fail(c) == Settle(c, metadataCache)

\* lines 67-82: a request calls getTokenMetadata; the call returns the
\* cached record at once, or builds its local metadata object, invokes
\* getMintInfo and is suspended until that settles.
BeginResolve(c, mintAddress, tokenType) ==
    /\ FreeSlot(c)
    /\ LET cacheKey == CacheKey(mintAddress, tokenType)
       IN  IF CacheFresh(metadataCache, now, cacheKey)
           THEN UNCHANGED <<calls, mintLookups>>
           ELSE /\ TotalLookups < MaxLookups
                /\ mintLookups' = (mintAddress :> (Count(mintLookups, mintAddress) + 1))
                                    @@ mintLookups
                /\ calls' = [calls EXCEPT ![c] =
                               [pc |-> "getMintInfo",
                                mintAddress |-> mintAddress, tokenType |-> tokenType,
                                metadata |-> [address |-> mintAddress,
                                              type |-> tokenType, timestamp |-> now]]]
    /\ UNCHANGED <<metadataCache, now, lookupAt, last, txVars, chainVars>>

\* lines 82-96: getMintInfo settles; without mint info the call fails,
\* otherwise the local object gets the mint fields and the call awaits
\* getMetaplexMetadata (both token types take that branch).
MintInfoArrives(c, mo) ==
    /\ calls[c].pc = "getMintInfo"
    /\ LET mintInfo == getMintInfo(calls[c].mintAddress, mo)
       IN  IF ~mintInfo.found
           THEN Fail(c)
           ELSE /\ calls' = [calls EXCEPT ![c] =
                               [pc |-> "getMetaplexMetadata",
                                mintAddress |-> calls[c].mintAddress,
                                tokenType |-> calls[c].tokenType,
                                mintInfo |-> mintInfo,
                                metadata |-> [decimals |-> mintInfo.decimals,
                                              supply |-> mintInfo.supply,
                                              isInitialized |-> mintInfo.isInitialized]
                                             @@ calls[c].metadata]]
                /\ UNCHANGED metadataCache
    /\ UNCHANGED <<now, mintLookups, lookupAt, last, txVars, chainVars>>

\* lines 96-119: getMetaplexMetadata settles; the call completes its local
\* object, stores it under its key and returns it.
MetaplexArrives(c, po) ==
    /\ calls[c].pc = "getMetaplexMetadata"
    /\ LET metaplexData == getMetaplexMetadata(calls[c].mintAddress, po)
           metadata == BuildMetadata(calls[c].metadata.timestamp, calls[c].mintAddress,
                                     calls[c].tokenType, calls[c].mintInfo, metaplexData)
           cacheKey == CacheKey(calls[c].mintAddress, calls[c].tokenType)
       IN  Settle(c, (cacheKey :> metadata) @@ metadataCache)
    /\ UNCHANGED <<now, mintLookups, lookupAt, last, txVars, chainVars>>

\* The (address, kind) pairs concurrent requests resolve: both kinds of
\* one mint, so that calls meet on the same key and on different keys.
ConcurrentRequests == { q \in Mints \X TokenTypes : q[1] = "MintA" }

NextConcurrent ==
    \/ \E c \in 1..MaxCalls, q \in ConcurrentRequests : BeginResolve(c, q[1], q[2])
    \/ \E c \in 1..MaxCalls, mo \in MintInfoOutcomes : MintInfoArrives(c, mo)
    \/ \E c \in 1..MaxCalls, po \in MetaplexOutcomes : MetaplexArrives(c, po)
    \/ ClearCache
    \/ Tick

SpecConcurrent == InitMeta /\ [][NextConcurrent]_vars

-----------------------------------------------------------------------------
(* ChainManager *)

\* clusterApiUrl(cluster) of @solana/web3.js, with TLS
clusterApiUrl(cluster) == "https://api." \o cluster \o ".solana.com"

\* ChainManager.networks: the RPC endpoints of each cluster, in configured
\* order (the access token in the path of the first endpoint is left out).
Networks ==
    [cluster \in {"mainnet-beta", "devnet", "testnet"} |->
       CASE cluster = "mainnet-beta" ->
              <<"https://fabled-sparkling-general.solana-mainnet.quiknode.pro/",
                "https://api.mainnet-beta.solana.com",
                "https://solana-mainnet.rpc.extrnode.com",
                "https://rpc.ankr.com/solana">>
         [] cluster = "devnet" ->
              <<"https://api.devnet.solana.com", clusterApiUrl("devnet")>>
         [] cluster = "testnet" ->
              <<"https://api.testnet.solana.com", clusterApiUrl("testnet")>>]

\* The clusters callers ask for; "localnet" is not configured.
Clusters == {"mainnet-beta", "devnet", "localnet"}

\* getNetwork (lines 72-74)
getNetwork(cluster) ==
    IF cluster \in DOMAIN Networks
    THEN [found |-> TRUE, rpc |-> Networks[cluster]]
    ELSE [found |-> FALSE]

\* new Connection(rpc, ...) made by call number n for its i-th endpoint
NewConnection(rpc, n, i) == [rpc |-> rpc, call |-> n, endpoint |-> i]

FreeConnSlot(c) ==
    connCalls[c].pc = "idle" /\ \A d \in 1..(c - 1) : connCalls[d].pc # "idle"

\* Variant: the loop goes on to the endpoint after the next.
NextEndpoint_Skip(i) == i + 2

\* for (const rpc of network.rpc): the endpoint after the i-th (line 88)
NextEndpoint(i) == i + 1

\* lines 76-83: a caller calls getConnection; the call returns the cached
\* connection at once or is suspended at `await this.getNetwork`.
BeginGetConnection(c, cluster) ==
    /\ FreeConnSlot(c)
    /\ connCount < MaxConnections
    /\ connCount' = connCount + 1
    /\ IF cluster \in DOMAIN connectionCache
       THEN /\ connLast' = [op |-> "getConnection", call |-> connCount + 1,
                            cluster |-> cluster, outcome |-> "returned",
                            connection |-> connectionCache[cluster],
                            fromCache |-> TRUE, errors |-> << >>]
            /\ UNCHANGED connCalls
       ELSE /\ connCalls' = [connCalls EXCEPT ![c] =
                               [pc |-> "getNetwork", call |-> connCount + 1,
                                cluster |-> cluster]]
            /\ UNCHANGED connLast
    /\ UNCHANGED <<connectionCache, metaVars, txVars, calls>>

\* lines 83-97: the network is looked up; an unknown cluster or an empty
\* endpoint list makes the call raise, otherwise the call makes the
\* connection to the first endpoint and awaits its getSlot.
NetworkResolved(c) ==
    /\ connCalls[c].pc = "getNetwork"
    /\ LET network == getNetwork(connCalls[c].cluster)
       IN  IF ~network.found \/ network.rpc = << >>
           THEN /\ connLast' = [op |-> "getConnection", call |-> connCalls[c].call,
                                cluster |-> connCalls[c].cluster, outcome |-> "raised",
                                fromCache |-> FALSE, errors |-> << >>]
                /\ connCalls' = [connCalls EXCEPT ![c] = [pc |-> "idle"]]
           ELSE /\ connCalls' = [connCalls EXCEPT ![c] =
                                   [pc |-> "getSlot", call |-> connCalls[c].call,
                                    cluster |-> connCalls[c].cluster,
                                    rpc |-> network.rpc, i |-> 1, errors |-> << >>]]
                /\ UNCHANGED connLast
    /\ UNCHANGED <<connectionCache, connCount, metaVars, txVars, calls>>

\* lines 97-103: getSlot succeeds; the connection is cached and returned.
ProbeSucceeds(c) ==
    /\ connCalls[c].pc = "getSlot"
    /\ LET connection == NewConnection(connCalls[c].rpc[connCalls[c].i],
                                       connCalls[c].call, connCalls[c].i)
       IN  /\ connectionCache' = (connCalls[c].cluster :> connection) @@ connectionCache
           /\ connLast' = [op |-> "getConnection", call |-> connCalls[c].call,
                           cluster |-> connCalls[c].cluster, outcome |-> "returned",
                           connection |-> connection,
                           fromCache |-> FALSE, errors |-> connCalls[c].errors]
    /\ connCalls' = [connCalls EXCEPT ![c] = [pc |-> "idle"]]
    /\ UNCHANGED <<connCount, metaVars, txVars, calls>>

\* lines 104-111: getSlot throws; the error is noted and the loop goes on
\* to the next endpoint, or the call raises when there is none left.
ProbeFails(c) ==
    /\ connCalls[c].pc = "getSlot"
    /\ LET errors == Append(connCalls[c].errors, connCalls[c].rpc[connCalls[c].i])
           next == NextEndpoint(connCalls[c].i)
       IN  IF next <= Len(connCalls[c].rpc)
           THEN /\ connCalls' = [connCalls EXCEPT ![c].i = next, ![c].errors = errors]
                /\ UNCHANGED connLast
           ELSE /\ connLast' = [op |-> "getConnection", call |-> connCalls[c].call,
                                cluster |-> connCalls[c].cluster, outcome |-> "raised",
                                fromCache |-> FALSE, errors |-> errors]
                /\ connCalls' = [connCalls EXCEPT ![c] = [pc |-> "idle"]]
    /\ UNCHANGED <<connectionCache, connCount, metaVars, txVars, calls>>

\* clearConnectionCache (lines 115-117)
ClearConnectionCache ==
    /\ connectionCache' = << >>
    /\ connLast' = [op |-> "clearConnectionCache", dropped |-> DOMAIN connectionCache]
    /\ UNCHANGED <<connCalls, connCount, metaVars, txVars, calls>>

NextChain ==
    \/ \E c \in 1..MaxConnCalls, cluster \in Clusters : BeginGetConnection(c, cluster)
    \/ \E c \in 1..MaxConnCalls : NetworkResolved(c)
    \/ \E c \in 1..MaxConnCalls : ProbeSucceeds(c)
    \/ \E c \in 1..MaxConnCalls : ProbeFails(c)
    \/ ClearConnectionCache

SpecChain == InitMeta /\ [][NextChain]_vars

-----------------------------------------------------------------------------
(* Numbers and Number.prototype.toString *)

\* A finite non-negative number m * 10^-e, or NaN.
Num(m, e) == [nan |-> FALSE, m |-> m, e |-> e]

NaN == [nan |-> TRUE]

RECURSIVE Pow10(_)
Pow10(n) == IF n = 0 THEN 1 ELSE 10 * Pow10(n - 1)

DigitChar == <<"0", "1", "2", "3", "4", "5", "6", "7", "8", "9">>

RECURSIVE Digits(_)
Digits(m) ==
    IF m < 10 THEN DigitChar[m + 1]
    ELSE Digits(m \div 10) \o DigitChar[(m % 10) + 1]

RECURSIVE NumDigits(_)
NumDigits(m) == IF m < 10 THEN 1 ELSE 1 + NumDigits(m \div 10)

RECURSIVE TrailingZeros(_)
TrailingZeros(m) ==
    IF m = 0 \/ m % 10 # 0 THEN 0 ELSE 1 + TrailingZeros(m \div 10)

RECURSIVE Zeros(_)
Zeros(n) == IF n <= 0 THEN "" ELSE "0" \o Zeros(n - 1)

\* the decimal digits of m, left-padded with zeros to width w
PadDigits(m, w) == Zeros(w - NumDigits(m)) \o Digits(m)

\* Number.prototype.toString (radix 10): with s the k significant digits
\* and n the decimal exponent (value = 0.s * 10^n), plain notation is used
\* for -6 < n <= 21 and exponent notation otherwise.
NumberToString(x) ==
    IF x.nan THEN "NaN"
    ELSE IF x.m = 0 THEN "0"
    ELSE LET z == TrailingZeros(x.m)
             s == x.m \div Pow10(z)
             k == NumDigits(s)
             n == k + z - x.e
         IN  IF k <= n /\ n <= 21 THEN Digits(s) \o Zeros(n - k)
             ELSE IF 0 < n /\ n <= 21
             THEN Digits(s \div Pow10(k - n)) \o "." \o PadDigits(s % Pow10(k - n), k - n)
             ELSE IF -6 < n /\ n <= 0
             THEN "0." \o Zeros(-n) \o Digits(s)
             ELSE LET mant == IF k = 1 THEN Digits(s)
                              ELSE Digits(s \div Pow10(k - 1)) \o "." \o
                                   PadDigits(s % Pow10(k - 1), k - 1)
                      ex == n - 1
                  IN  mant \o "e" \o (IF ex < 0 THEN "-" \o Digits(-ex)
                                      ELSE "+" \o Digits(ex))

\* x === 1
IsOne(x) == ~x.nan /\ x.m = Pow10(x.e)

-----------------------------------------------------------------------------
(* Program registry (instructionProcessor.ts, registry-based version) *)

SYSTEM_PROGRAM_ID == "11111111111111111111111111111111"
TOKEN_PROGRAM_ID == "TokenkegQfeZyiNwAJbNbGKPFXCWuBvf9Ss623VQ5DA"
JUPITER_ID == "JUP4Fb2cqiRUcaTHdrPC8h2gNsA2ETXiPDD33WcGuJB"
MEMO_PROGRAM_ID == "MemoSq4gqABAXKb96qnH8TysNcWxMyWCqXgDLGmfcHr"

KNOWN_PROGRAMS ==
  << [id |-> SYSTEM_PROGRAM_ID, name |-> "System Program",
      instructions |->
        [transfer |-> "Transfer SOL",
         transferWithSeed |-> "Transfer SOL with Seed",
         allocate |-> "Allocate Space",
         allocateWithSeed |-> "Allocate Space with Seed",
         assign |-> "Assign Account",
         assignWithSeed |-> "Assign Account with Seed",
         createAccount |-> "Create Account",
         createAccountWithSeed |-> "Create Account with Seed",
         advance_nonce_account |-> "Advance Nonce Account",
         withdraw_nonce_account |-> "Withdraw from Nonce Account",
         initialize_nonce_account |-> "Initialize Nonce Account",
         authorize_nonce_account |-> "Authorize Nonce Account"]],
     [id |-> TOKEN_PROGRAM_ID, name |-> "Token Program",
      instructions |->
        [transfer |-> "Transfer Tokens",
         transferChecked |-> "Transfer Tokens (Checked)",
         mintTo |-> "Mint Tokens",
         mintToChecked |-> "Mint Tokens (Checked)",
         burn |-> "Burn Tokens",
         burnChecked |-> "Burn Tokens (Checked)",
         approve |-> "Approve Token Delegation",
         revoke |-> "Revoke Token Delegation",
         setAuthority |-> "Set Authority",
         closeAccount |-> "Close Token Account",
         freezeAccount |-> "Freeze Account",
         thawAccount |-> "Thaw Account",
         syncNative |-> "Sync Native",
         initializeMint |-> "Initialize Mint",
         initializeAccount |-> "Initialize Token Account"]],
     [id |-> "ATokenGPvbdGVxr1b2hvZbsiqW5xWH25efTNsLJA8knL",
      name |-> "Associated Token Program",
      instructions |->
        [create |-> "Create Associated Token Account",
         createIdempotent |-> "Create Associated Token Account (Idempotent)",
         recover |-> "Recover Nested Token Account"]],
     [id |-> "metaqbxxUerdq28cj1RbAWkYQm3ybzjb6a8bt518x1s",
      name |-> "Token Metadata Program",
      instructions |->
        [createMetadataAccount |-> "Create Metadata Account",
         updateMetadataAccount |-> "Update Metadata Account",
         createMasterEdition |-> "Create Master Edition",
         verifyCollection |-> "Verify Collection",
         setAndVerifyCollection |-> "Set and Verify Collection",
         unverifyCollection |-> "Unverify Collection",
         burnNft |-> "Burn NFT",
         verifyCreator |-> "Verify Creator",
         unverifyCreator |-> "Unverify Creator"]],
     [id |-> JUPITER_ID, name |-> "Jupiter Aggregator v6",
      instructions |-> [default |-> "Swap Tokens"]],
     [id |-> "675kPX9MHTjS2zt1qfr1NYHuzeLXfQM9H24wFSUt1Mp8",
      name |-> "Raydium Liquidity Pool V4",
      instructions |-> [default |-> "Swap Tokens"]],
     [id |-> "whirLbMiicVdio4qvUfM5KAg6Ct8VwpYzGff3uctyCc",
      name |-> "Orca Whirlpool",
      instructions |-> [default |-> "Swap Tokens"]],
     [id |-> "Stake11111111111111111111111111111111111111",
      name |-> "Stake Program",
      instructions |->
        [initialize |-> "Initialize Stake Account",
         delegate |-> "Delegate Stake",
         withdraw |-> "Withdraw Stake",
         deactivate |-> "Deactivate Stake",
         split |-> "Split Stake",
         merge |-> "Merge Stake",
         authorizeWithSeed |-> "Authorize with Seed"]],
     [id |-> "MarBmsSgKXdrN1egZf5sqe1TMai9K1rChYNDJgjq7aD",
      name |-> "Marinade.Finance",
      instructions |-> [default |-> "Stake SOL"]],
     [id |-> "9xQeWvG816bUx9EPjHmaT23yvVM2ZWbrrpZb9PusVFin",
      name |-> "Serum DEX v3",
      instructions |-> [default |-> "DEX Operation"]],
     [id |-> "ComputeBudget111111111111111111111111111111",
      name |-> "Compute Budget Program",
      instructions |-> [default |-> "Set Compute Unit Limit"]],
     [id |-> "M2mx93ekt1fmXSVkTrUL9xVFHkmME8HTUi5Cyc5aF7K",
      name |-> "Magic Eden v2",
      instructions |-> [default |-> "Magic Eden Operation"]],
     [id |-> "auth9SigNpDKz4sJJ1DfCTuZrZNSAgh9sFD3rboVmgg",
      name |-> "Token Auth Rules",
      instructions |-> [default |-> "Token Authorization Rules"]],
     [id |-> MEMO_PROGRAM_ID, name |-> "Memo Program",
      instructions |-> [default |-> "Add Memo"]] >>

KnownIds == { KNOWN_PROGRAMS[i].id : i \in DOMAIN KNOWN_PROGRAMS }

\* new Map(Object.values(KNOWN_PROGRAMS).map(program => [program.id, program]))
PROGRAM_ID_MAP ==
    [id \in KnownIds |->
        KNOWN_PROGRAMS[CHOOSE i \in DOMAIN KNOWN_PROGRAMS : KNOWN_PROGRAMS[i].id = id]]

\* Variant: the synthesized name does not carry the identifier.
UnknownProgram_NoId(programAddress) ==
    [name |-> "Unknown Program",
     instructions |-> [default |-> "Unknown Instruction"]]

UnknownProgram(programAddress) ==
    [name |-> "Unknown Program (" \o programAddress \o ")",
     instructions |-> [default |-> "Unknown Instruction"]]

\* getProgramInfo; programAddress is the base58 form of the identifier.
getProgramInfo(programAddress) ==
    IF programAddress \in DOMAIN PROGRAM_ID_MAP
    THEN PROGRAM_ID_MAP[programAddress]
    ELSE UnknownProgram(programAddress)

\* bs58.decode(data).toString('utf8') for the payloads the model uses; a
\* payload with a character outside the base58 alphabet makes bs58 throw.
Base58Text == [x \in {"8wr", "8sW", "Cn8eVZg"} |->
                 CASE x = "8wr" -> "hi" [] x = "8sW" -> "gm" [] x = "Cn8eVZg" -> "hello"]

decodeInstructionData(data) ==
    IF data \in DOMAIN Base58Text THEN Base58Text[data] ELSE data

\* Variant: the default label is consulted before the raw name.
LabelFor_DefaultFirst(programInfo, instructionName) ==
    OrElse(Lookup(programInfo.instructions, instructionName),
           OrElse(Lookup(programInfo.instructions, "default"), instructionName))

\* programInfo.instructions[instructionName] || instructionName  (line 328)
LabelFor(programInfo, instructionName) ==
    OrElse(Lookup(programInfo.instructions, instructionName), instructionName)

EmptyObject == << >>

\* parseInstructionDetail (lines 292-332)
parseInstructionDetail(instruction, inner) ==
    LET programInfo == getProgramInfo(instruction.programId)
    IN  IF Has(instruction, "parsed")
        THEN [programName |-> programInfo.name,
              instructionName |->
                  LabelFor(programInfo, Lookup(instruction.parsed, "type")),
              params |-> IF Has(instruction.parsed, "info")
                         THEN instruction.parsed.info ELSE EmptyObject,
              innerInstructions |-> inner]
        ELSE [programName |-> programInfo.name,
              instructionName |->
                  LabelFor(programInfo,
                           OrElse(Lookup(programInfo.instructions, "default"),
                                  "Unknown Instruction")),
              params |-> [data |-> decodeInstructionData(instruction.data),
                          accounts |-> instruction.accounts],
              innerInstructions |-> inner]

-----------------------------------------------------------------------------
(* Transfer parsers.  Each returns [kind |-> "null"], [kind |-> "raise"]    *)
(* (a TypeError escapes) or [kind |-> "transfer", transfer |-> t]; the      *)
(* token parsers also return the resolver call they made, if any.           *)

ParsedType(instruction) == Lookup(instruction.parsed, "type")

\* Variant: only the plain transfer tag is recognized.
NativeTags_TransferOnly == {"transfer"}

\* the tags parseSystemInstruction recognizes (line 240)
NativeTags == {"transfer", "transferWithSeed"}

\* parseSystemInstruction (lines 237-254)
parseSystemInstruction(instruction) ==
    IF ParsedType(instruction) \in NativeTags
    THEN IF ~Has(instruction.parsed, "info") THEN [kind |-> "raise"]
         ELSE LET info == instruction.parsed.info
              IN  [kind |-> "transfer",
                   transfer |->
                     [tokenType |-> "Native",
                      token |-> [symbol |-> "SOL", decimals |-> 9],
                      from |-> OrElse(Lookup(info, "source"), Lookup(info, "from")),
                      to |-> OrElse(Lookup(info, "destination"), Lookup(info, "to")),
                      value |-> NumberToString(
                                  IF Has(info, "lamports")
                                  THEN Num(info.lamports, 9) ELSE NaN)]]
    ELSE [kind |-> "null"]

\* Variant: the default number of decimals is 6.
DecimalsOrDefault_Six(tokenMetadata) ==
    IF Has(tokenMetadata, "decimals") /\ tokenMetadata.decimals # 0
    THEN tokenMetadata.decimals
    ELSE 6

\* tokenMetadata.decimals || 9
DecimalsOrDefault(tokenMetadata) ==
    IF Has(tokenMetadata, "decimals") /\ tokenMetadata.decimals # 0
    THEN tokenMetadata.decimals
    ELSE 9

\* parseTokenTransfer (lines 175-205)
parseTokenTransfer(instruction, cache, t, mo, po) ==
    IF ParsedType(instruction) \in {"transferChecked", "transfer"}
    THEN IF ~Has(instruction.parsed, "info")
         THEN [kind |-> "raise", call |-> NoCall(cache)]
         ELSE LET info == instruction.parsed.info
                  mintAddress == OrElse(Lookup(info, "mint"), Lookup(info, "token"))
                  r == getTokenMetadata(cache, t, mintAddress, "SPL", mo, po)
                  call == Call(mintAddress, "SPL", r)
                  tokenMetadata == r.ret
              IN  IF Has(info, "tokenAmount") /\ ~Has(info.tokenAmount, "uiAmount")
                  THEN [kind |-> "raise", call |-> call]
                  ELSE [kind |-> "transfer", call |-> call,
                        transfer |->
                          [tokenType |-> "SPL",
                           token |-> tokenMetadata,
                           from |-> OrElse(Lookup(info, "authority"), Lookup(info, "source")),
                           to |-> Lookup(info, "destination"),
                           value |->
                             IF Has(info, "tokenAmount")
                             THEN NumberToString(info.tokenAmount.uiAmount)
                             ELSE IF Has(info, "amount") /\ info.amount # 0
                             THEN NumberToString(
                                    Num(info.amount, DecimalsOrDefault(tokenMetadata)))
                             ELSE "0"]]
    ELSE [kind |-> "null", call |-> NoCall(cache)]

\* Variant: zero decimals alone make a transfer an NFT transfer.
LooksLikeNFT_DecimalsOnly(info) ==
    /\ Has(info, "tokenAmount")
    /\ Has(info.tokenAmount, "decimals") /\ info.tokenAmount.decimals = 0

\* The NFT heuristic of parseNFTTransfer (lines 215-216).
LooksLikeNFT(info) ==
    /\ Has(info, "tokenAmount")
    /\ Has(info.tokenAmount, "decimals") /\ info.tokenAmount.decimals = 0
    /\ Has(info.tokenAmount, "uiAmount") /\ IsOne(info.tokenAmount.uiAmount)

\* parseNFTTransfer (lines 207-235)
parseNFTTransfer(instruction, cache, t, mo, po) ==
    IF ParsedType(instruction) \in {"transferChecked", "transfer"}
    THEN IF ~Has(instruction.parsed, "info")
         THEN [kind |-> "raise", call |-> NoCall(cache)]
         ELSE LET info == instruction.parsed.info
                  mintAddress == Lookup(info, "mint")
                  r == getTokenMetadata(cache, t, mintAddress, "NFT", mo, po)
              IN  IF LooksLikeNFT(info)
                  THEN [kind |-> "transfer",
                        call |-> Call(mintAddress, "NFT", r),
                        transfer |->
                          [tokenType |-> "NFT",
                           token |-> r.ret,
                           from |-> OrElse(Lookup(info, "authority"), Lookup(info, "source")),
                           to |-> Lookup(info, "destination"),
                           tokenId |-> mintAddress]]
                  ELSE [kind |-> "null", call |-> NoCall(cache)]
    ELSE [kind |-> "null", call |-> NoCall(cache)]

-----------------------------------------------------------------------------
(* classifyAndExtractInstructions (lines 334-413) *)

Range(seq) == { seq[i] : i \in DOMAIN seq }

RECURSIVE Flatten(_)
Flatten(seqs) == IF seqs = << >> THEN << >> ELSE Head(seqs) \o Flatten(Tail(seqs))

\* Variant: an inner instruction is normalized with itself as its child.
RECURSIVE MapDetail_Nested(_)
MapDetail_Nested(ixs) ==
    IF ixs = << >> THEN << >>
    ELSE <<parseInstructionDetail(Head(ixs),
                                  <<parseInstructionDetail(Head(ixs), << >>)>>)>>
         \o MapDetail_Nested(Tail(ixs))

\* line 367: each inner instruction is normalized without children
RECURSIVE MapDetail(_)
MapDetail(ixs) ==
    IF ixs = << >> THEN << >>
    ELSE <<parseInstructionDetail(Head(ixs), << >>)>> \o MapDetail(Tail(ixs))

\* The inner-instruction entries recorded for top-level index i (0-based),
\* in order: filter(inner => inner.index === idx).
\* Variant: the entries are not filtered by parent index.
MatchesIndex_NoFilter(inner, i) == inner.index >= 0

MatchesIndex(inner, i) == inner.index = i

RECURSIVE EntriesFor(_, _)
EntriesFor(entries, i) ==
    IF entries = << >> THEN << >>
    ELSE (IF MatchesIndex(Head(entries), i) THEN <<Head(entries).instructions>> ELSE << >>)
         \o EntriesFor(Tail(entries), i)

\* lines 363-367: the details of the inner instructions of top-level index i
InnerDetails(entries, i) == MapDetail(Flatten(EntriesFor(entries, i)))

\* Variant: the identifier is appended without the includes() test.
TrackProgram_NoDedup(programInteractions, programId) ==
    Append(programInteractions, programId)

\* lines 354-360
TrackProgram(programInteractions, programId) ==
    IF programId \in Range(programInteractions)
    THEN programInteractions
    ELSE Append(programInteractions, programId)

\* Variant: a Transfer and its type label are put in front of the earlier
\* ones, as if a later instruction's lookup had completed first.
PushTransfer_Prepend(res, parsedTransfer, typeLabel) ==
    IF parsedTransfer.kind = "transfer"
    THEN [res EXCEPT !.transfers = <<parsedTransfer.transfer>> \o @,
                     !.types = <<typeLabel>> \o @]
    ELSE res

\* lines 380-383, 388-391 and 394-397
PushTransfer(res, parsedTransfer, typeLabel) ==
    IF parsedTransfer.kind = "transfer"
    THEN [res EXCEPT !.transfers = Append(@, parsedTransfer.transfer),
                     !.types = Append(@, typeLabel)]
    ELSE res

\* Variant: as in the earlier version of the file, a parsed system or
\* spl-token instruction yields transfers only and is not added to actions.
PushDetail_DefaultCaseOnly(res, instruction, detail, programId) ==
    IF Has(instruction, "parsed")
    THEN IF instruction.program \in {"system", "spl-token"}
         THEN [res EXCEPT !.types = Append(@, detail.instructionName)]
         ELSE [res EXCEPT !.types = Append(@, detail.instructionName),
                          !.actions = Append(@, detail)]
    ELSE [res EXCEPT !.types = Append(@, getProgramInfo(programId).name),
                     !.otherInstructions = Append(@, detail)]

\* lines 401-402 and 404-406: where the detail of a top-level instruction goes
PushDetail(res, instruction, detail, programId) ==
    IF Has(instruction, "parsed")
    THEN [res EXCEPT !.types = Append(@, detail.instructionName),
                     !.actions = Append(@, detail)]
    ELSE [res EXCEPT !.types = Append(@, getProgramInfo(programId).name),
                     !.otherInstructions = Append(@, detail)]

\* One iteration of the loop for instruction `instruction` at 0-based index
\* i, from result `res` and manager state m at time t; mo1/po1 and mo2/po2
\* are what the account lookups of the first and second resolver call would
\* yield.  Returns whether a TypeError escaped, the result and the manager
\* state afterwards.  programId is a PublicKey in what getParsedTransaction
\* returns, so lines 354-356 take its base58 form.
Iteration(res, m, t, entries, instruction, i, mo1, po1, mo2, po2) ==
    LET programId == instruction.programId
        res1 == [res EXCEPT !.programInteractions = TrackProgram(@, programId)]
        detail == parseInstructionDetail(instruction, InnerDetails(entries, i))
    IN  IF ~Has(instruction, "parsed")
        THEN [raised |-> FALSE, m |-> m,
              res |-> PushDetail(res1, instruction, detail, programId)]
        ELSE IF instruction.program = "system"
        THEN LET st == parseSystemInstruction(instruction)
             IN  IF st.kind = "raise"
                 THEN [raised |-> TRUE, m |-> m, res |-> res1]
                 ELSE [raised |-> FALSE, m |-> m,
                       res |-> PushDetail(PushTransfer(res1, st, "Native Transfer"),
                                          instruction, detail, programId)]
        ELSE IF instruction.program = "spl-token"
        THEN LET tt == parseTokenTransfer(instruction, m.cache, t, mo1, po1)
                 m1 == RecordCall(m, tt.call, t)
                 res2 == PushTransfer(res1, tt, "Token Transfer")
                 nt == parseNFTTransfer(instruction, m1.cache, t, mo2, po2)
                 m2 == RecordCall(m1, nt.call, t)
                 res3 == PushTransfer(res2, nt, "NFT Transfer")
             IN  IF tt.kind = "raise"
                 THEN [raised |-> TRUE, m |-> m1, res |-> res1]
                 ELSE IF nt.kind = "raise"
                 THEN [raised |-> TRUE, m |-> m2, res |-> res2]
                 ELSE [raised |-> FALSE, m |-> m2,
                       res |-> PushDetail(res3, instruction, detail, programId)]
        ELSE [raised |-> FALSE, m |-> m,
              res |-> PushDetail(res1, instruction, detail, programId)]

\* What the account lookups made for an instruction can yield; only an
\* spl-token instruction reaches the resolver.  The pairs kept are: no
\* mint account, a zero-decimals mint with Metaplex metadata, and a
\* two-decimals mint without.
LookupOutcomes(instruction) ==
    IF Has(instruction, "parsed") /\ instruction.program = "spl-token"
    THEN { <<mo, po>> \in MintInfoOutcomes \X MetaplexOutcomes :
             mo.found => (po.found <=> mo.decimals = 0) }
    ELSE { <<[found |-> FALSE], [found |-> FALSE]>> }

\* The iteration for instruction idx completes.
ProcessInstruction ==
    /\ pc = "loop"
    /\ idx < Len(instructions)
    /\ \E o1 \in LookupOutcomes(instructions[idx + 1]),
          o2 \in LookupOutcomes(instructions[idx + 1]) :
         LET it == Iteration(result, Manager, now, innerInstructions,
                             instructions[idx + 1], idx, o1[1], o1[2], o2[1], o2[2])
         IN  /\ ~it.raised
             /\ result' = it.res
             /\ SetManager(it.m)
             /\ idx' = idx + 1
    /\ UNCHANGED <<now, pc, instructions, innerInstructions, asyncVars>>

\* A TypeError escapes the iteration for instruction idx: the call rejects.
RaiseInInstruction ==
    /\ pc = "loop"
    /\ idx < Len(instructions)
    /\ \E o1 \in LookupOutcomes(instructions[idx + 1]),
          o2 \in LookupOutcomes(instructions[idx + 1]) :
         LET it == Iteration(result, Manager, now, innerInstructions,
                             instructions[idx + 1], idx, o1[1], o1[2], o2[1], o2[2])
         IN  /\ it.raised
             /\ result' = it.res
             /\ SetManager(it.m)
    /\ pc' = "raised"
    /\ UNCHANGED <<now, idx, instructions, innerInstructions, asyncVars>>

\* The loop is over: the result is returned (line 412).
Return ==
    /\ pc = "loop"
    /\ idx = Len(instructions)
    /\ pc' = "done"
    /\ UNCHANGED <<metaVars, instructions, innerInstructions, idx, result, asyncVars>>

-----------------------------------------------------------------------------
(* Transactions the model analyses *)

UNKNOWN_X == "X1111111111111111111111111111111111111111"
UNKNOWN_Y == "Y1111111111111111111111111111111111111111"

ParsedIx(programId, program, parsed) ==
    [programId |-> programId, program |-> program, parsed |-> parsed]

OpaqueIx(programId, data, accounts) ==
    [programId |-> programId, data |-> data, accounts |-> accounts]

SysTransfer ==
    ParsedIx(SYSTEM_PROGRAM_ID, "system",
             [type |-> "transfer",
              info |-> [source |-> "Alice", destination |-> "Bob",
                        lamports |-> 1500000000]])

SysCreateAccount ==
    ParsedIx(SYSTEM_PROGRAM_ID, "system",
             [type |-> "createAccount",
              info |-> [source |-> "Alice", newAccount |-> "Carol", lamports |-> 1000]])

SysTransferNoInfo ==
    ParsedIx(SYSTEM_PROGRAM_ID, "system", [type |-> "transfer"])

TokTransfer ==
    ParsedIx(TOKEN_PROGRAM_ID, "spl-token",
             [type |-> "transfer",
              info |-> [amount |-> 250, authority |-> "Alice",
                        source |-> "AliceAta", destination |-> "BobAta"]])

TokTransferMint ==
    ParsedIx(TOKEN_PROGRAM_ID, "spl-token",
             [type |-> "transfer",
              info |-> [mint |-> "MintA", amount |-> 250,
                        source |-> "AliceAta", destination |-> "BobAta"]])

TokChecked ==
    ParsedIx(TOKEN_PROGRAM_ID, "spl-token",
             [type |-> "transferChecked",
              info |-> [mint |-> "MintA",
                        tokenAmount |-> [amount |-> 250, decimals |-> 2,
                                         uiAmount |-> Num(250, 2)],
                        authority |-> "Alice",
                        source |-> "AliceAta", destination |-> "BobAta"]])

TokCheckedNFT ==
    ParsedIx(TOKEN_PROGRAM_ID, "spl-token",
             [type |-> "transferChecked",
              info |-> [mint |-> "MintB",
                        tokenAmount |-> [amount |-> 1, decimals |-> 0,
                                         uiAmount |-> Num(1, 0)],
                        authority |-> "Alice",
                        source |-> "AliceAta", destination |-> "BobAta"]])

TokCheckedNullUi ==
    ParsedIx(TOKEN_PROGRAM_ID, "spl-token",
             [type |-> "transferChecked",
              info |-> [mint |-> "MintA",
                        tokenAmount |-> [amount |-> 250, decimals |-> 2],
                        source |-> "AliceAta", destination |-> "BobAta"]])

TokMintTo ==
    ParsedIx(TOKEN_PROGRAM_ID, "spl-token",
             [type |-> "mintTo",
              info |-> [mint |-> "MintA", amount |-> 250, account |-> "AliceAta"]])

JupParsed ==
    ParsedIx(JUPITER_ID, "jupiter",
             [type |-> "route", info |-> [inAmount |-> 250]])

MemoParsed == ParsedIx(MEMO_PROGRAM_ID, "spl-memo", [text |-> "gm"])

UnknownParsed ==
    ParsedIx(UNKNOWN_X, "custom", [type |-> "doThing", info |-> [n |-> 1]])

UnknownOpaque == OpaqueIx(UNKNOWN_X, "8wr", <<"Alice", "Bob">>)

MemoOpaque == OpaqueIx(MEMO_PROGRAM_ID, "0OIl", << >>)

SysOpaque == OpaqueIx(SYSTEM_PROGRAM_ID, "Cn8eVZg", <<"Alice">>)

InnerOpaque == OpaqueIx(UNKNOWN_Y, "8sW", <<"Carol">>)

TopInstructions ==
    { SysTransfer, SysCreateAccount, SysTransferNoInfo,
      TokTransfer, TokTransferMint, TokChecked, TokCheckedNFT, TokCheckedNullUi,
      TokMintTo, JupParsed, MemoParsed, UnknownParsed,
      UnknownOpaque, MemoOpaque, SysOpaque }

\* tx.meta.innerInstructions: none, children of the first instruction, and
\* interleaved entries for two parents with an entry that has no parent.
InnerChoices ==
    { << >>,
      << [index |-> 0, instructions |-> <<SysTransfer, InnerOpaque>>] >>,
      << [index |-> 1, instructions |-> <<TokChecked>>],
         [index |-> 7, instructions |-> <<TokTransfer>>],
         [index |-> 0, instructions |-> <<InnerOpaque>>],
         [index |-> 1, instructions |-> <<SysTransfer>>] >> }

SeqsUpTo(S, n) == UNION { [1..k -> S] : k \in 0..n }

InitTx(instrs, max, inners) ==
    /\ instructions \in SeqsUpTo(instrs, max)
    /\ innerInstructions \in inners
    /\ idx = 0
    /\ pc = "loop"
    /\ result = EmptyResult

Init == InitManager /\ InitTx(TopInstructions, MaxInstr, InnerChoices)

Next == ProcessInstruction \/ RaiseInInstruction \/ Return

Spec == Init /\ [][Next]_vars

\* Transactions of plain instructions of four programs, for ordering.
OrderInstructions == { SysCreateAccount, UnknownOpaque, JupParsed, MemoOpaque }

InitOrder == InitManager /\ InitTx(OrderInstructions, MaxOrderInstr, InnerChoices)

NextOrder == ProcessInstruction \/ Return

SpecOrder == InitOrder /\ [][NextOrder]_vars

\* One pass over a transaction of token transfers, within one reading of
\* the clock, while other requests use the process-wide
\* TokenMetadataManager and an operator clears the cache.
SharedInstructions == { TokChecked, TokCheckedNFT }

\* Another request resolves the mint the NFT transfer names.
ResolveShared ==
    \E k \in TokenTypes, mo \in MintInfoOutcomes, po \in MetaplexOutcomes :
        GetTokenMetadata("MintB", k, mo, po)

InitShared == InitManager /\ InitTx(SharedInstructions, MaxSharedInstr, { << >> })

NextShared == ProcessInstruction \/ Return \/ ResolveShared \/ ClearCache

SpecShared == InitShared /\ [][NextShared]_vars

\* Transactions of system and spl-token instructions, well-formed and with
\* a field missing, for the transfer parsers.
SysTransferWithSeed ==
    ParsedIx(SYSTEM_PROGRAM_ID, "system",
             [type |-> "transferWithSeed",
              info |-> [source |-> "Alice", sourceBase |-> "Base", sourceSeed |-> "seed",
                        sourceOwner |-> "Owner", destination |-> "Bob",
                        lamports |-> 250]])

SysTransferNoLamports ==
    ParsedIx(SYSTEM_PROGRAM_ID, "system",
             [type |-> "transfer",
              info |-> [source |-> "Alice", destination |-> "Bob"]])

SysTransferNoDestination ==
    ParsedIx(SYSTEM_PROGRAM_ID, "system",
             [type |-> "transfer",
              info |-> [source |-> "Alice", lamports |-> 1500000000]])

TokTransferNoAmount ==
    ParsedIx(TOKEN_PROGRAM_ID, "spl-token",
             [type |-> "transfer",
              info |-> [mint |-> "MintA", authority |-> "Alice",
                        source |-> "AliceAta", destination |-> "BobAta"]])

TokCheckedZeroDecimals ==
    ParsedIx(TOKEN_PROGRAM_ID, "spl-token",
             [type |-> "transferChecked",
              info |-> [mint |-> "MintB",
                        tokenAmount |-> [amount |-> 5, decimals |-> 0,
                                         uiAmount |-> Num(5, 0)],
                        authority |-> "Alice",
                        source |-> "AliceAta", destination |-> "BobAta"]])

TransferInstructions ==
    { SysTransfer, SysTransferWithSeed, SysCreateAccount,
      SysTransferNoLamports, SysTransferNoDestination,
      TokTransfer, TokTransferMint, TokTransferNoAmount,
      TokChecked, TokCheckedNFT, TokCheckedZeroDecimals, TokMintTo }

InitTransfers == InitManager /\ InitTx(TransferInstructions, MaxTransferInstr, { << >> })

NextTransfers == ProcessInstruction \/ Return

SpecTransfers == InitTransfers /\ [][NextTransfers]_vars

-----------------------------------------------------------------------------
(* Properties *)

IsParsed(instruction) == Has(instruction, "parsed")

\* Number of parsed / opaque instructions among the first k.
ParsedAmong(k) == Cardinality({ i \in 1..k : IsParsed(instructions[i]) })
OpaqueAmong(k) == Cardinality({ i \in 1..k : ~IsParsed(instructions[i]) })

\* The detail the result holds for top-level instruction i (1-based, i <= idx).
DetailAt(i) ==
    IF IsParsed(instructions[i])
    THEN result.actions[ParsedAmong(i)]
    ELSE result.otherInstructions[OpaqueAmong(i)]

\* C1: every top-level instruction processed so far went to exactly one of
\* actions / otherInstructions: the parsed ones to actions, the opaque ones
\* to otherInstructions, so the two lengths add up to the number of
\* instructions processed, and to the number of top-level instructions once
\* the pass has returned.
C1_ExactlyOneSequence ==
    /\ Len(result.actions) = ParsedAmong(idx)
    /\ Len(result.otherInstructions) = OpaqueAmong(idx)
    /\ Len(result.actions) + Len(result.otherInstructions) = idx
    /\ pc = "done" =>
         Len(result.actions) + Len(result.otherInstructions) = Len(instructions)

\* A returned pass over a system transfer, an spl-token transfer and an
\* opaque instruction is reached.
C1_Witness ==
    /\ pc = "done"
    /\ Len(instructions) = 2
    /\ \E i, j \in 1..2 :
         /\ IsParsed(instructions[i]) /\ instructions[i].program = "spl-token"
         /\ ~IsParsed(instructions[j])
    /\ Len(result.actions) = 1
    /\ Len(result.otherInstructions) = 1
    /\ Len(result.transfers) = 2

\* The identifiers of the first k instructions.
ProgramIds(k) == [i \in 1..k |-> instructions[i].programId]

\* seq without the elements that occurred earlier in it.
RECURSIVE FirstOccurrences(_)
FirstOccurrences(seq) ==
    IF seq = << >> THEN << >>
    ELSE LET front == SubSeq(seq, 1, Len(seq) - 1)
             x == seq[Len(seq)]
         IN  IF \E i \in 1..Len(front) : front[i] = x
             THEN FirstOccurrences(front)
             ELSE Append(FirstOccurrences(front), x)

IsPrefix(a, b) == Len(a) <= Len(b) /\ SubSeq(b, 1, Len(a)) = a

NoDuplicates(seq) == \A i, j \in 1..Len(seq) : seq[i] = seq[j] => i = j

\* C2: after every iteration programInteractions has no duplicate and lists
\* the identifiers of the instructions processed so far in order of first
\* occurrence, and an iteration only ever appends to it.
C2_FirstOccurrenceOrder ==
    /\ [](/\ NoDuplicates(result.programInteractions)
          /\ result.programInteractions = FirstOccurrences(ProgramIds(idx)))
    /\ [][IsPrefix(result.programInteractions, result.programInteractions')]_vars

\* The pass over programs [A, B, A, C] has returned [A, B, C].
C2_Witness ==
    /\ pc = "done"
    /\ ProgramIds(idx) = <<SYSTEM_PROGRAM_ID, UNKNOWN_X, SYSTEM_PROGRAM_ID, JUPITER_ID>>
    /\ result.programInteractions = <<SYSTEM_PROGRAM_ID, UNKNOWN_X, JUPITER_ID>>

\* A step that is one resolution by a caller outside the pass.
ResolutionStep ==
    /\ last'.op = "getTokenMetadata"
    /\ now' = now /\ idx' = idx /\ pc' = pc
    /\ (last' # last \/ mintLookups' # mintLookups)

\* C3 (as claimed): a resolution of a key that was looked up less than the
\* TTL ago (and not cleared since), whatever that lookup yielded, triggers
\* no mint-info lookup; one issued once that age has reached the TTL
\* triggers a lookup.
C3_OneLookupPerTTL ==
    [][\A k \in DOMAIN lookupAt :
          (ResolutionStep /\ last'.key = k) =>
             IF now - lookupAt[k] < TTL
             THEN mintLookups' = mintLookups
             ELSE last'.looked /\ mintLookups' # mintLookups]_vars

\* C4 (as claimed): whatever getTokenMetadata returned after a miss or an
\* expiry is what the cache holds under the key.
C4_WriteThrough ==
    (last.op = "getTokenMetadata" /\ last.looked) =>
        /\ last.key \in DOMAIN metadataCache
        /\ metadataCache[last.key] = last.ret

\* The instruction a completing iteration processes is an NFT-qualifying
\* token transfer.
NFTIteration ==
    /\ idx' = idx + 1
    /\ IsParsed(instructions[idx + 1])
    /\ instructions[idx + 1].program = "spl-token"
    /\ Has(instructions[idx + 1].parsed, "info")
    /\ LooksLikeNFT(instructions[idx + 1].parsed.info)

Cold(mintAddress, tokenType) ==
    ~(/\ (mintAddress \o "-" \o tokenType) \in DOMAIN metadataCache
      /\ now - metadataCache[mintAddress \o "-" \o tokenType].timestamp < TTL)

\* C5: every cache entry sits under the key of its own address and kind and
\* a resolution returns a record of the address and kind asked for; a
\* resolution changes no slot but its own; and an NFT-qualifying transfer
\* looks the mint up once for each of its two kinds that is cold, twice on a
\* cold cache.
C5_IndependentSlots ==
    /\ [](/\ \A k \in DOMAIN metadataCache :
               k = metadataCache[k].address \o "-" \o metadataCache[k].type
          /\ last.op = "getTokenMetadata" =>
               last.ret.address = last.address /\ last.ret.type = last.type)
    /\ [][ResolutionStep =>
            \A k \in (DOMAIN metadataCache \cup DOMAIN metadataCache') \ {last'.key} :
               /\ k \in DOMAIN metadataCache /\ k \in DOMAIN metadataCache'
               /\ metadataCache'[k] = metadataCache[k]]_vars
    /\ [][NFTIteration =>
            LET mint == instructions[idx + 1].parsed.info.mint
            IN  Count(mintLookups', mint) - Count(mintLookups, mint) =
                  (IF Cold(mint, "SPL") THEN 1 ELSE 0) +
                  (IF Cold(mint, "NFT") THEN 1 ELSE 0)]_vars

\* The NFT transfer of MintB ran on a cold cache: its fungible lookup failed,
\* its NFT lookup succeeded, two lookups in all.
C5_Witness ==
    /\ idx = 1 /\ instructions[1] = TokCheckedNFT
    /\ Len(result.transfers) = 2
    /\ Has(result.transfers[1].token, "error")
    /\ ~Has(result.transfers[2].token, "error")
    /\ last.op = "getTokenMetadata" /\ last.type = "NFT" /\ last.looked
    /\ mintLookups = ("MintB" :> 2)
    /\ DOMAIN metadataCache = {"MintB-NFT"}

DescriptiveFields ==
    {"name", "symbol", "uri", "sellerFeeBasisPoints", "creators", "collection", "uses"}

C7_ClearDropsAll ==
    /\ last.op = "clearCache" => DOMAIN metadataCache = {}
    /\ (last.op = "getTokenMetadata" /\ last.afterClear) => last.looked /\ ~last.hit

\* A key that was cached less than the TTL ago was dropped by clearCache and
\* the next resolution of it looked the mint up again.
C7_Witness ==
    /\ last.op = "getTokenMetadata" /\ last.afterClear
    /\ last.key \in last.dropped
    /\ now < TTL
    /\ last.looked /\ last.mintOk
    /\ mintLookups[last.address] = 2

HasTag(instruction) == IsParsed(instruction) /\ Has(instruction.parsed, "type")

\* The label order of the registry's label(descriptor, rawTag) as claimed:
\* exact tag, then the descriptor's default, then the tag itself.
DefaultBeforeTag(d, t) ==
    IF t \in DOMAIN d.instructions THEN d.instructions[t]
    ELSE IF "default" \in DOMAIN d.instructions THEN d.instructions["default"]
    ELSE t

\* What the code does for a parsed instruction: exact tag, then the tag.
TagVerbatim(d, t) ==
    IF t \in DOMAIN d.instructions THEN d.instructions[t] ELSE t

Descriptor(instruction) ==
    IF \E k \in DOMAIN KNOWN_PROGRAMS : KNOWN_PROGRAMS[k].id = instruction.programId
    THEN KNOWN_PROGRAMS[CHOOSE k \in DOMAIN KNOWN_PROGRAMS :
                           KNOWN_PROGRAMS[k].id = instruction.programId]
    ELSE [name |-> "Unknown Program (" \o instruction.programId \o ")",
          instructions |-> [default |-> "Unknown Instruction"]]

\* C8 (as claimed): the label of a parsed instruction with tag t is the
\* descriptor's label for t, else the descriptor's default, else t.
C8_DefaultBeforeTag ==
    \A i \in 1..idx :
        HasTag(instructions[i]) =>
            DetailAt(i).instructionName =
                DefaultBeforeTag(Descriptor(instructions[i]), instructions[i].parsed.type)

\* C8 (amended): the label of a parsed instruction with tag t is the
\* descriptor's label for t if it has one, else t verbatim; the default
\* label is not consulted.
C8_TagVerbatim ==
    \A i \in 1..idx :
        HasTag(instructions[i]) =>
            DetailAt(i).instructionName =
                TagVerbatim(Descriptor(instructions[i]), instructions[i].parsed.type)

\* A parsed Jupiter instruction with the unlisted tag "route" was labelled
\* "route", next to a parsed instruction with a listed tag.
C8_Witness ==
    /\ pc = "done"
    /\ \E i \in 1..idx :
         /\ instructions[i] = JupParsed
         /\ DetailAt(i).instructionName = "route"
    /\ \E j \in 1..idx :
         /\ HasTag(instructions[j])
         /\ DetailAt(j).instructionName \in {"Transfer SOL", "Transfer Tokens (Checked)"}

\* C9: the detail of an instruction of a program that is not in the
\* registry names it "Unknown Program (X)" and, if the instruction is
\* opaque, labels it "Unknown Instruction" (getProgramInfo synthesizes
\* that descriptor); the detail of an instruction of a registered program
\* carries the registered name.
C9_UnknownProgramSynthesized ==
    \A i \in 1..idx :
        LET ins == instructions[i]
            known == { k \in DOMAIN KNOWN_PROGRAMS : KNOWN_PROGRAMS[k].id = ins.programId }
        IN  IF known = {}
            THEN /\ DetailAt(i).programName = "Unknown Program (" \o ins.programId \o ")"
                 /\ ~IsParsed(ins) => DetailAt(i).instructionName = "Unknown Instruction"
                 /\ getProgramInfo(ins.programId) =
                      [name |-> "Unknown Program (" \o ins.programId \o ")",
                       instructions |-> [default |-> "Unknown Instruction"]]
            ELSE /\ \A k \in known : DetailAt(i).programName = KNOWN_PROGRAMS[k].name
                 /\ \A k \in known : getProgramInfo(ins.programId) = KNOWN_PROGRAMS[k]

\* An opaque instruction of the unregistered program X and an instruction
\* of the Memo program have been processed.
C9_Witness ==
    /\ pc = "done"
    /\ \E j \in 1..Len(result.otherInstructions) :
         /\ result.otherInstructions[j].programName =
              "Unknown Program (X1111111111111111111111111111111111111111)"
         /\ result.otherInstructions[j].instructionName = "Unknown Instruction"
    /\ \E i \in 1..idx :
         /\ instructions[i].programId = MEMO_PROGRAM_ID
         /\ DetailAt(i).programName = "Memo Program"

\* All inner instructions with the index of their parent, in input order.
RECURSIVE InnerPairs(_)
InnerPairs(entries) ==
    IF entries = << >> THEN << >>
    ELSE [k \in 1..Len(Head(entries).instructions) |->
            [parent |-> Head(entries).index, ix |-> Head(entries).instructions[k]]]
         \o InnerPairs(Tail(entries))

\* The inner instructions whose parent index is i0 (0-based), in input order.
ChildrenOf(i0) ==
    LET OfParent(p) == p.parent = i0
    IN  SelectSeq(InnerPairs(innerInstructions), OfParent)

\* C10: the children of the detail of top-level instruction i are exactly
\* the inner instructions associated to index i, normalized, in input order
\* (so an inner instruction is in no other detail's children), and the
\* top-level sequences hold one detail per processed top-level instruction
\* and nothing else.
C10_InnerOnlyUnderParent ==
    /\ \A i \in 1..idx :
         LET children == ChildrenOf(i - 1)
         IN  DetailAt(i).innerInstructions =
               [k \in 1..Len(children) |-> parseInstructionDetail(children[k].ix, << >>)]
    /\ Len(result.actions) + Len(result.otherInstructions) = idx

\* Two parents with interleaved inner-instruction entries: the first got
\* one child and the second two, in input order.
C10_Witness ==
    /\ pc = "done" /\ idx = 2
    /\ Len(innerInstructions) = 4
    /\ Len(DetailAt(1).innerInstructions) = 1
    /\ DetailAt(1).innerInstructions[1].programName =
         "Unknown Program (Y1111111111111111111111111111111111111111)"
    /\ Len(DetailAt(2).innerInstructions) = 2
    /\ DetailAt(2).innerInstructions[1].programName = "Token Program"
    /\ DetailAt(2).innerInstructions[2].programName = "System Program"

-----------------------------------------------------------------------------
(* Transfers *)

\* The instruction the loop is about to process, and what a step of the
\* loop appended to transfers and types.
Current == instructions[idx + 1]

Processed == pc = "loop" /\ idx < Len(instructions) /\ idx' = idx + 1

NewTransfers ==
    SubSeq(result'.transfers, Len(result.transfers) + 1, Len(result'.transfers))

NewTypes == SubSeq(result'.types, Len(result.types) + 1, Len(result'.types))

IsTokenTransfer(instruction) ==
    /\ IsParsed(instruction) /\ instruction.program = "spl-token"
    /\ ParsedType(instruction) \in {"transfer", "transferChecked"}

\* The decimals an asset record was resolved with; 9 if it carries none.
ResolvedDecimals(token) == IF Has(token, "decimals") THEN token.decimals ELSE 9

ValueByResolvedDecimals ==
    (Processed /\ IsTokenTransfer(Current) /\ Has(Current.parsed, "info")) =>
        LET info == Current.parsed.info
            new == NewTransfers
        IN  /\ Len(new) >= 1
            /\ new[1].tokenType = "SPL"
            /\ Has(info, "tokenAmount") =>
                 new[1].value = NumberToString(info.tokenAmount.uiAmount)
            /\ (~Has(info, "tokenAmount") /\ Has(info, "amount")) =>
                 LET d == ResolvedDecimals(new[1].token)
                 IN  /\ new[1].value = NumberToString(Num(info.amount, d))
                     /\ d > 0 => new[1].value # NumberToString(Num(info.amount, 0))

\* C11: the SPL Transfer a parsed spl-token transfer/transferChecked
\* instruction appends has as value the supplied display amount if the
\* instruction carries one, and otherwise the raw amount divided by 10^d,
\* d being the decimals of the asset record the transfer carries (0
\* included) and 9 only if the record carries none; with d > 0 the value is
\* not the raw amount.
C11_ValueByResolvedDecimals == [][ValueByResolvedDecimals]_vars

\* m * 10^-e written in plain decimal notation, without trailing zeros.
PlainDecimal(x) ==
    LET z == TrailingZeros(x.m)
        cut == IF z < x.e THEN z ELSE x.e
        s == x.m \div Pow10(cut)
        e == x.e - cut
    IN  IF x.m = 0 THEN "0"
        ELSE IF e = 0 THEN Digits(s)
        ELSE Digits(s \div Pow10(e)) \o "." \o PadDigits(s % Pow10(e), e)

PlainDecimalValue ==
    (Processed /\ IsTokenTransfer(Current) /\ Has(Current.parsed, "info")) =>
        LET info == Current.parsed.info
            new == NewTransfers
        IN  (~Has(info, "tokenAmount") /\ Has(info, "amount")) =>
               /\ Len(new) >= 1
               /\ new[1].value \in { PlainDecimal(Num(info.amount, d)) : d \in 0..9 }
               /\ (info.amount = 250 /\ Has(new[1].token, "decimals")
                                     /\ new[1].token.decimals = 2) =>
                    new[1].value = "2.5"
               /\ (info.amount = 250 /\ ~Has(new[1].token, "decimals")) =>
                    new[1].value = "0.00000025"

\* C12: the value of the SPL Transfer of a raw amount is a plain decimal
\* string, without exponent: raw amount 250 gives "2.5" when the asset
\* record was resolved with decimals 2 and "0.00000025" when the metadata
\* was not resolved and the default of 9 decimals applies.
C12_PlainDecimalValue == [][PlainDecimalValue]_vars

IsSystemInstruction(instruction) ==
    IsParsed(instruction) /\ instruction.program = "system"

NativeTransfer ==
    (Processed /\ IsSystemInstruction(Current)) =>
        LET new == NewTransfers
        IN  IF ParsedType(Current) \in {"transfer", "transferWithSeed"}
            THEN /\ Len(new) = 1
                 /\ new[1].tokenType = "Native"
                 /\ new[1].token = [symbol |-> "SOL", decimals |-> 9]
                 /\ Has(Current.parsed.info, "lamports") =>
                      new[1].value = NumberToString(Num(Current.parsed.info.lamports, 9))
                 /\ (Has(Current.parsed.info, "lamports")
                       /\ Current.parsed.info.lamports = 1500000000) =>
                      new[1].value = "1.5"
            ELSE new = << >>

NFTPredicate(info) ==
    /\ Has(info, "tokenAmount")
    /\ Has(info.tokenAmount, "decimals") /\ info.tokenAmount.decimals = 0
    /\ Has(info.tokenAmount, "uiAmount") /\ info.tokenAmount.uiAmount = Num(1, 0)

BothPredicates ==
    (Processed /\ IsTokenTransfer(Current) /\ Has(Current.parsed, "info")) =>
        LET info == Current.parsed.info
            new == NewTransfers
        IN  IF NFTPredicate(info)
            THEN /\ Len(new) = 2
                 /\ new[1].tokenType = "SPL"
                 /\ new[2].tokenType = "NFT"
                 /\ new[2].tokenId = Lookup(info, "mint")
                 /\ SubSeq(NewTypes, 1, 2) = <<"Token Transfer", "NFT Transfer">>
            ELSE /\ Len(new) = 1
                 /\ new[1].tokenType = "SPL"
                 /\ NewTypes[1] = "Token Transfer"

\* C14: a parsed spl-token transfer/transferChecked instruction whose token
\* amount has decimals 0 and display amount 1 appends two Transfers, the
\* SPL one first and then an NFT one whose tokenId is the instruction's
\* mint; when the NFT predicate is false it appends the SPL Transfer only.
C14_BothPredicates == [][BothPredicates]_vars

\* An NFT-shaped transfer of mint MintB gave an SPL and an NFT record, and
\* a zero-decimals transfer of 5 units gave an SPL record only.
C14_Witness ==
    /\ idx = 2
    /\ instructions[1] = TokCheckedNFT /\ instructions[2] = TokCheckedZeroDecimals
    /\ Len(result.transfers) = 3
    /\ result.transfers[1].tokenType = "SPL"
    /\ result.transfers[2].tokenType = "NFT"
    /\ result.transfers[2].tokenId = "MintB"
    /\ result.transfers[3].tokenType = "SPL"

\* A recognized transfer instruction lacks its amount, its source or
\* destination, or (for a token transfer) its mint.
MissingField(instruction) ==
    LET info == instruction.parsed.info
    IN  IF IsSystemInstruction(instruction)
        THEN \/ ~Has(info, "lamports")
             \/ ~(Has(info, "source") \/ Has(info, "from"))
             \/ ~(Has(info, "destination") \/ Has(info, "to"))
        ELSE \/ ~(Has(info, "tokenAmount") \/ Has(info, "amount"))
             \/ ~(Has(info, "authority") \/ Has(info, "source"))
             \/ ~Has(info, "destination")
             \/ ~(Has(info, "mint") \/ Has(info, "token"))

IsRecognizedTransfer(instruction) ==
    \/ IsTokenTransfer(instruction)
    \/ /\ IsSystemInstruction(instruction)
       /\ ParsedType(instruction) \in {"transfer", "transferWithSeed"}

MalformedNoTransfer ==
    (/\ Processed
     /\ IsRecognizedTransfer(Current)
     /\ Has(Current.parsed, "info")
     /\ MissingField(Current)) =>
        /\ Len(result'.actions) = Len(result.actions) + 1
        /\ result'.actions[Len(result'.actions)].params = Current.parsed.info
        /\ NewTransfers = << >>

\* C15: when a parsed system transfer/transferWithSeed or spl-token
\* transfer/transferChecked instruction lacks an expected field (amount,
\* source or destination, mint), its detail is still appended to actions
\* with the fields that are present as params, and the instruction appends
\* no Transfer.
C15_MalformedNoTransfer == [][MalformedNoTransfer]_vars

\* The instruction has an info mapping and, if it states a token amount,
\* a display amount in it.
ReadableAmount(instruction) ==
    /\ Has(instruction.parsed, "info")
    /\ Has(instruction.parsed.info, "tokenAmount") =>
         Has(instruction.parsed.info.tokenAmount, "uiAmount")

SurvivesLookupFailure ==
    (/\ pc = "loop" /\ idx < Len(instructions)
     /\ IsTokenTransfer(Current) /\ ReadableAmount(Current)) =>
        LET info == Current.parsed.info
            new == NewTransfers
        IN  /\ pc' = "loop" /\ idx' = idx + 1
            /\ Len(new) >= 1
            /\ new[1].tokenType = "SPL"
            /\ Has(new[1].token, "error") =>
                 /\ new[1].token =
                      [address |-> OrElse(Lookup(info, "mint"), Lookup(info, "token")),
                       type |-> "SPL", error |-> "Failed to fetch metadata"]
                 /\ (~Has(info, "tokenAmount") /\ Has(info, "amount")) =>
                      new[1].value = NumberToString(Num(info.amount, 9))
                 /\ Len(result'.actions) = Len(result.actions) + 1

\* C16: a failed metadata resolution does not abort the pass.  A step of
\* the loop on a parsed spl-token transfer/transferChecked instruction
\* whose amount can be read always completes the iteration and appends the
\* SPL Transfer; when the resolver answered with an error-marked record,
\* that record is the Transfer's asset, a raw amount is divided by 10^9,
\* the detail is appended and the loop goes on to the next instruction.
C16_SurvivesLookupFailure == [][SurvivesLookupFailure]_vars

\* The resolution for the first instruction failed, its SPL Transfer
\* carries the error-marked record and the value by 9 decimals, and the
\* instruction after it was processed as well.
C16_Witness ==
    /\ pc = "done" /\ idx = 2
    /\ instructions[1] = TokTransferMint
    /\ instructions[2] = SysTransfer
    /\ Len(result.transfers) = 2
    /\ Has(result.transfers[1].token, "error")
    /\ result.transfers[1].value = NumberToString(Num(250, 9))
    /\ result.transfers[2].tokenType = "Native"
    /\ Len(result.actions) = 2

\* Every detail the result holds: the top-level ones and their children.
TopDetails == Range(result.actions) \cup Range(result.otherInstructions)

AllDetails == TopDetails \cup UNION { Range(d.innerInstructions) : d \in TopDetails }

\* C17: every InstructionDetail the normalizer produced, for a parsed or an
\* opaque instruction, at top level or as a child, has a defined non-empty
\* instructionName; a parsed instruction without a type tag is labelled
\* "Unknown Instruction".
C17_AlwaysLabelled ==
    /\ \A d \in AllDetails : d.instructionName # Undefined /\ d.instructionName # ""
    /\ \A i \in 1..idx :
         (IsParsed(instructions[i]) /\ ~Has(instructions[i].parsed, "type")) =>
            DetailAt(i).instructionName = "Unknown Instruction"

\* C18: the call never rejects, whatever the instruction list: it returns a
\* result with all five sequences, after processing every instruction, and
\* the result of an empty list is five empty sequences.
C18_NeverRaises ==
    /\ pc # "raised"
    /\ pc = "done" =>
         /\ DOMAIN result = {"programInteractions", "actions", "otherInstructions",
                             "types", "transfers"}
         /\ idx = Len(instructions)
         /\ Len(result.actions) + Len(result.otherInstructions) = Len(instructions)
    /\ (pc = "done" /\ instructions = << >>) => result = EmptyResult

-----------------------------------------------------------------------------
(* Order of the result *)

TransferLabel(transfer) ==
    CASE transfer.tokenType = "Native" -> "Native Transfer"
      [] transfer.tokenType = "SPL" -> "Token Transfer"
      [] transfer.tokenType = "NFT" -> "NFT Transfer"

\* The details of the inner instructions of top-level index i0 (0-based),
\* in input order.
ChildDetails(i0) ==
    LET children == ChildrenOf(i0)
    IN  [k \in 1..Len(children) |-> parseInstructionDetail(children[k].ix, << >>)]

\* What the iteration for the instruction at index idx may append: to the
\* end of each sequence only, its Transfers with the SPL one before the NFT
\* one, and to types the labels of those Transfers in that order followed
\* by the label of the instruction.
AppendsInOrder ==
    Processed =>
        LET new == NewTransfers
            detail == parseInstructionDetail(Current, ChildDetails(idx))
            label == IF IsParsed(Current) THEN detail.instructionName
                     ELSE getProgramInfo(Current.programId).name
        IN  /\ IsPrefix(result.transfers, result'.transfers)
            /\ IsPrefix(result.types, result'.types)
            /\ IsPrefix(result.programInteractions, result'.programInteractions)
            /\ IF IsParsed(Current)
               THEN /\ result'.actions = Append(result.actions, detail)
                    /\ result'.otherInstructions = result.otherInstructions
               ELSE /\ result'.otherInstructions = Append(result.otherInstructions, detail)
                    /\ result'.actions = result.actions
            /\ Len(new) <= 2
            /\ Len(new) = 2 => new[1].tokenType = "SPL" /\ new[2].tokenType = "NFT"
            /\ NewTypes = [k \in 1..Len(new) |-> TransferLabel(new[k])] \o <<label>>

\* The details held for the instructions processed so far are theirs, in
\* index order, each with its children in input order.
DetailsInIndexOrder ==
    \A i \in 1..idx :
        DetailAt(i) = parseInstructionDetail(instructions[i], ChildDetails(i - 1))

\* C19: the result sequences are in instruction index order: the iteration
\* for an instruction only appends, after everything earlier instructions
\* appended, to actions, otherInstructions, types and transfers; a parent's
\* children are in input order; and the types entries of one instruction
\* are its transfer labels (Token Transfer before NFT Transfer) followed by
\* the instruction's label.
C19_IndexOrder == [][AppendsInOrder]_vars /\ []DetailsInIndexOrder

\* An NFT-shaped token transfer followed by a native transfer that has two
\* children: five types entries and three Transfers in index order.
C19_Witness ==
    /\ pc = "done" /\ idx = 2
    /\ instructions[1] = TokCheckedNFT /\ instructions[2] = SysTransfer
    /\ result.types = <<"Token Transfer", "NFT Transfer", "Transfer Tokens (Checked)",
                        "Native Transfer", "Transfer SOL">>
    /\ [k \in 1..3 |-> result.transfers[k].tokenType] = <<"SPL", "NFT", "Native">>
    /\ Len(result.actions) = 2
    /\ Len(result.actions[2].innerInstructions) = 2
    /\ [k \in 1..2 |-> result.actions[2].innerInstructions[k].programName] =
         <<"Token Program", "System Program">>

-----------------------------------------------------------------------------
(* Inner instructions *)

\* The iteration for the instruction at index idx leaves transfers, types
\* and programInteractions as it would if the transaction had no inner
\* instructions at all, under the same answers of the account lookups.
InnerLeaveNoTrace ==
    Processed =>
        \E o1 \in LookupOutcomes(Current), o2 \in LookupOutcomes(Current) :
            LET bare == Iteration(result, Manager, now, << >>, Current, idx,
                                  o1[1], o1[2], o2[1], o2[2])
            IN  /\ ~bare.raised
                /\ result'.transfers = bare.res.transfers
                /\ result'.types = bare.res.types
                /\ result'.programInteractions = bare.res.programInteractions

ChildrenAreLeaves ==
    /\ \A d \in TopDetails :
         \A k \in 1..Len(d.innerInstructions) :
            d.innerInstructions[k].innerInstructions = << >>
    /\ pc # "raised" =>
         /\ Range(result.programInteractions) =
              { instructions[i].programId : i \in 1..idx }
         /\ Len(result.types) = Len(result.transfers) + idx

\* C20: inner instructions show in the result only as children of their
\* parent: they append nothing to transfers, types or programInteractions,
\* even when they are parsed transfers or invoke a program that no
\* top-level instruction invokes, and every child has an empty children
\* sequence, so that the detail tree has depth at most 2.
C20_InnerOnlyAsChildren == [][InnerLeaveNoTrace]_vars /\ []ChildrenAreLeaves

\* A createAccount whose children are a parsed native transfer and an
\* opaque instruction of a program of its own: no Transfer, one type, one
\* program, two children without children.
C20_Witness ==
    /\ pc = "done" /\ idx = 1
    /\ instructions[1] = SysCreateAccount
    /\ result.transfers = << >>
    /\ result.types = <<"Create Account">>
    /\ result.programInteractions = <<SYSTEM_PROGRAM_ID>>
    /\ Len(result.actions[1].innerInstructions) = 2
    /\ result.actions[1].innerInstructions[1].instructionName = "Transfer SOL"
    /\ result.actions[1].innerInstructions[2].programName =
         "Unknown Program (Y1111111111111111111111111111111111111111)"

-----------------------------------------------------------------------------
(* Concurrent resolutions *)

\* The entry under cacheKey is a complete, successfully resolved record of
\* the address and kind the key is made of.
ResolvedEntry(cacheKey) ==
    LET e == metadataCache[cacheKey]
    IN  /\ {"address", "type", "timestamp", "decimals", "supply", "isInitialized"}
              \subseteq DOMAIN e
        /\ e.address \in Mints /\ e.type \in TokenTypes
        /\ cacheKey = e.address \o "-" \o e.type
        /\ e.decimals \in Nat
        /\ e.timestamp \in 0..now
        /\ ~Has(e, "error")
        /\ e.type = "NFT" => Has(e, "isNFT")

\* A step changes an entry only by clearCache, which drops them all, or by
\* a call that was awaiting the Metaplex lookup and returns in this step,
\* and then only the entry under that call's own key.
WritesOwnKey ==
    \/ metadataCache' = metadataCache
    \/ metadataCache' = << >>
    \/ \E c \in 1..MaxCalls :
         /\ calls[c].pc = "getMetaplexMetadata"
         /\ calls'[c].pc = "idle"
         /\ LET cacheKey == calls[c].mintAddress \o "-" \o calls[c].tokenType
            IN  /\ DOMAIN metadataCache' = DOMAIN metadataCache \cup {cacheKey}
                /\ \A k \in DOMAIN metadataCache :
                     k # cacheKey => metadataCache'[k] = metadataCache[k]

-----------------------------------------------------------------------------
(* Connection failover *)

\* A call that is probing its i-th endpoint has seen exactly the i-1
\* endpoints configured before it fail, in configured order.
ProbesInConfiguredOrder ==
    \A c \in 1..MaxConnCalls :
        connCalls[c].pc = "getSlot" =>
            /\ connCalls[c].rpc = Networks[connCalls[c].cluster]
            /\ connCalls[c].i \in 1..Len(connCalls[c].rpc)
            /\ connCalls[c].errors = SubSeq(connCalls[c].rpc, 1, connCalls[c].i - 1)

\* What the last getConnection call came to: a connection out of the cache
\* without a probe; the connection to the first endpoint whose probe
\* succeeded, every endpoint before it having failed; or an error, for an
\* unknown cluster without any probe and otherwise after every endpoint
\* failed.
OutcomeOfFailover ==
    connLast.op = "getConnection" =>
        IF connLast.fromCache
        THEN connLast.outcome = "returned" /\ connLast.errors = << >>
        ELSE IF connLast.outcome = "returned"
        THEN /\ connLast.cluster \in DOMAIN Networks
             /\ LET rpc == Networks[connLast.cluster]
                    k == connLast.connection.endpoint
                IN  /\ k \in 1..Len(rpc)
                    /\ connLast.connection.rpc = rpc[k]
                    /\ connLast.connection.call = connLast.call
                    /\ connLast.errors = SubSeq(rpc, 1, k - 1)
        ELSE /\ connLast.outcome = "raised"
             /\ IF connLast.cluster \in DOMAIN Networks
                THEN connLast.errors = Networks[connLast.cluster]
                ELSE connLast.errors = << >>

\* What a step may do to the connection cache.
CachesOnlySuccess ==
    /\ \* a call for a cached cluster returns the cached connection at once
       connCount' # connCount =>
         /\ \A c \in 1..MaxConnCalls :
              (connCalls[c].pc = "idle" /\ connCalls'[c].pc # "idle") =>
                 connCalls'[c].cluster \notin DOMAIN connectionCache
         /\ connCalls' = connCalls =>
              /\ connLast'.op = "getConnection" /\ connLast'.fromCache
              /\ connLast'.cluster \in DOMAIN connectionCache
              /\ connLast'.connection = connectionCache[connLast'.cluster]
              /\ connectionCache' = connectionCache
    /\ \* the cache changes only by a successful probe or by a clear
       connectionCache' # connectionCache =>
         \/ connLast'.op = "clearConnectionCache" /\ connectionCache' = << >>
         \/ /\ connLast'.op = "getConnection" /\ connLast' # connLast
            /\ connLast'.outcome = "returned" /\ ~connLast'.fromCache
    /\ \* a successful probe caches its connection under the cluster
       (connLast' # connLast /\ connLast'.op = "getConnection"
          /\ connLast'.outcome = "returned" /\ ~connLast'.fromCache) =>
         connectionCache' = (connLast'.cluster :> connLast'.connection) @@ connectionCache
    /\ \* a call that raises leaves the cache as it is
       (connLast' # connLast /\ connLast'.op = "getConnection"
          /\ connLast'.outcome = "raised") =>
         connectionCache' = connectionCache

\* C22: getConnection for a known cluster without cached connection probes
\* the endpoints strictly in configured order, returns and caches under the
\* cluster the connection to the first endpoint whose probe succeeds and
\* probes none after it; a failed probe caches nothing; when every probe
\* fails or the cluster is unknown the call raises and leaves the cache
\* unchanged; once a connection is cached, a call for that cluster returns
\* it without probing, until clearConnectionCache empties the cache.
C22_Failover ==
    [](ProbesInConfiguredOrder /\ OutcomeOfFailover) /\ [][CachesOnlySuccess]_vars

\* A call for mainnet-beta is answered from the cache with the connection
\* an earlier call made to the second endpoint after the first had failed.
C22_Witness ==
    /\ connLast.op = "getConnection"
    /\ connLast.cluster = "mainnet-beta"
    /\ connLast.fromCache
    /\ connLast.connection.endpoint = 2
    /\ connLast.connection.rpc = "https://api.mainnet-beta.solana.com"
    /\ connLast.connection.call < connLast.call
    /\ connectionCache["mainnet-beta"] = connLast.connection

====
